---- MODULE Spec2Model ----
(***************************************************************************)
(* Model of src/openaiClient.js: OpenAIClient.makeRequest (the credential  *)
(* fallback loop) and OpenAIClient.sendRequest (the transport retry with   *)
(* exponential backoff), together with the request context the key rotator *)
(* hands out for one makeRequest call.                                     *)
(***************************************************************************)
EXTENDS Integers, Sequences, FiniteSets, TLC

\* ------------------------------------------------------------------ bounds
\* Largest number of candidate credentials a request context offers.
MaxKeys == 3

\* ------------------------------------------------- requestRetryConfig (9-14)
maxRetries == 10
baseDelay == 10
backoffFactor == 2
maxDelay == 100

\* ------------------------------------------------------------------ values
\* JavaScript null for object-valued variables (lastError, lastResponse, ...).
Null == [null |-> TRUE]
\* JavaScript null for a credential; credentials are the integers 1..MaxKeys.
NullKey == 0

\* Typed JSON scalars, so that the string "429" and the number 429 differ.
Undefined == [t |-> "undefined", v |-> ""]
Str(s) == [t |-> "string", v |-> s]
Num(s) == [t |-> "number", v |-> s]

\* Response bodies the upstream may send.
BodyOk == "{\"ok\":true}"
BodyRateLimitType == "{\"error\":{\"type\":\"rate_limit_exceeded\"}}"
BodyCode429String == "{\"error\":{\"code\":\"429\"}}"
BodyCode429Number == "{\"error\":{\"code\":429,\"type\":\"other\"}}"
BodyErrorNull == "{\"error\":null}"
BodyJsonNull == "null"
BodyEmpty == ""
BodyNotJson == "<html>Bad Gateway</html>"
BodySynthesized == "{\"error\":{\"message\":\"All OpenAI API keys have been rate limited for this request\",\"type\":\"rate_limit_exceeded\",\"code\":\"rate_limit_exceeded\"}}"

Bodies ==
  { BodyOk, BodyRateLimitType, BodyCode429String, BodyCode429Number,
    BodyErrorNull, BodyJsonNull, BodyEmpty, BodyNotJson, BodySynthesized }

\* JSON.parse(response.data) followed by the reads of .error, .error.code and
\* .error.type (43-44).  threw: JSON.parse raised a SyntaxError, or reading
\* .error of the parsed value raised a TypeError (the parsed value is null).
\* truthyError: responseJson.error is truthy.
Parsed(threw, truthyError, code, type) ==
  [threw |-> threw, truthyError |-> truthyError, code |-> code, type |-> type]

JSONParse(data) ==
  CASE data = BodyOk -> Parsed(FALSE, FALSE, Undefined, Undefined)
    [] data = BodyRateLimitType ->
         Parsed(FALSE, TRUE, Undefined, Str("rate_limit_exceeded"))
    [] data = BodyCode429String -> Parsed(FALSE, TRUE, Str("429"), Undefined)
    [] data = BodyCode429Number -> Parsed(FALSE, TRUE, Num("429"), Str("other"))
    [] data = BodyErrorNull -> Parsed(FALSE, FALSE, Undefined, Undefined)
    [] data = BodySynthesized ->
         Parsed(FALSE, TRUE, Str("rate_limit_exceeded"), Str("rate_limit_exceeded"))
    [] data = BodyJsonNull -> Parsed(TRUE, FALSE, Undefined, Undefined)
    [] OTHER -> Parsed(TRUE, FALSE, Undefined, Undefined)

\* The response object sendRequest resolves with (137-141).
Response(statusCode, headers, data) ==
  [statusCode |-> statusCode, headers |-> headers, data |-> data]

UpstreamHeaders == [server |-> "upstream"]

\* The response makeRequest builds when no rate-limit response was remembered
\* (76-86).
SynthesizedResponse ==
  Response(429, [contentType |-> "application/json"], BodySynthesized)

\* Error messages are sequences of fragments; String.prototype.includes is
\* containment of a fragment.  The empty sequence is the empty message.
Includes(errorMessage, fragment) ==
  \E i \in 1..Len(errorMessage) : errorMessage[i] = fragment

MsgEmpty == << >>
MsgReadReset == <<"read ", "ECONNRESET">>
MsgBadRecordMac == <<"write EPROTO ", "SSL routines", ":", "ssl3_read_bytes", ":", "bad record mac">>
MsgTimedOut == <<"connect ", "ETIMEDOUT">>

ErrorObject(message) == [message |-> message]
GenericError == ErrorObject(<<"All API keys exhausted without clear error">>)


\* ---------------------------------------------------------- isSSLError (191-197)
isSSLError(errorMessage) ==
  IF errorMessage = << >> THEN FALSE
  ELSE \/ Includes(errorMessage, "SSL routines")
       \/ Includes(errorMessage, "ssl3_read_bytes")
       \/ Includes(errorMessage, "bad record mac")
       \/ Includes(errorMessage, "SSL alert")

\* Mutant: every error with a message is retried.
isRetriableError_AnyMessage(errorMessage) == errorMessage # << >>

\* ---------------------------------------------------- isRetriableError (199-203)
isRetriableError(errorMessage) ==
  IF errorMessage = << >> THEN FALSE
  ELSE Includes(errorMessage, "ECONNRESET") \/ isSSLError(errorMessage)

\* Mutant: the retry limit is tested with <= instead of <.
ShouldRetry_Inclusive(errorMessage, count) ==
  isRetriableError(errorMessage) /\ count <= maxRetries

\* The guard of the retry branch of the 'error' handler (149).
ShouldRetry(errorMessage, count) ==
  isRetriableError(errorMessage) /\ count < maxRetries

Min(a, b) == IF a <= b THEN a ELSE b

\* Mutant: the delay is not capped at maxDelay.
Delay_Uncapped(count) == baseDelay * backoffFactor ^ count

\* The backoff delay computed before a retry (150-153).
Delay(count) == Min(baseDelay * backoffFactor ^ count, maxDelay)

\* ------------------------------------------------- classification (33, 41-53)
\* Mutant: any status from 429 upwards is taken for a rate limit.
IsHardRateLimited_AtLeast429(response) == response.statusCode >= 429

IsHardRateLimited(response) == response.statusCode = 429

\* Mutant: the body is inspected whatever the status is.
IsSoftRateLimited_AnyStatus(response) ==
  LET responseJson == JSONParse(response.data)
  IN  /\ ~responseJson.threw
      /\ responseJson.truthyError
      /\ \/ responseJson.code = Str("429")
         \/ responseJson.type = Str("rate_limit_exceeded")

IsSoftRateLimited(response) ==
  /\ response.statusCode = 200
  /\ LET responseJson == JSONParse(response.data)
     IN  /\ ~responseJson.threw
         /\ responseJson.truthyError
         /\ \/ responseJson.code = Str("429")
            \/ responseJson.type = Str("rate_limit_exceeded")

\* Mutant: the JSON.parse is not guarded by try/catch, a body that does not
\* parse makes the classification throw.
Classify_NoCatch(response) ==
  IF IsHardRateLimited(response) THEN "HardRateLimited"
  ELSE IF response.statusCode = 200 /\ JSONParse(response.data).threw
       THEN "throws"
  ELSE IF IsSoftRateLimited(response) THEN "SoftRateLimited"
  ELSE "Success"

\* Mutant: the status-429 test is missing, only the body is inspected.
Classify_Ignore429(response) ==
  IF IsSoftRateLimited(response) THEN "SoftRateLimited" ELSE "Success"

Classify(response) ==
  IF IsHardRateLimited(response) THEN "HardRateLimited"
  ELSE IF IsSoftRateLimited(response) THEN "SoftRateLimited"
  ELSE "Success"

\* ------------------------------------------- request context (key rotator)
\* The context createRequestContext returns: the candidates of this request in
\* the order they are offered, how many were handed out, which were handed out
\* (tried), which were marked rate-limited, and the last key that failed.
createRequestContext(n) ==
  [ keys |-> [i \in 1..n |-> i],
    index |-> 0,
    triedKeys |-> {},
    rateLimitedKeys |-> {},
    lastFailedKey |-> NullKey ]

\* The value getNextKey returns: the next candidate, or null at exhaustion.
getNextKey(ctx) ==
  IF ctx.index < Len(ctx.keys) THEN ctx.keys[ctx.index + 1] ELSE NullKey

\* The context after a getNextKey call.
AfterGetNextKey(ctx) ==
  IF ctx.index < Len(ctx.keys)
  THEN [ctx EXCEPT !.index = @ + 1,
                   !.triedKeys = @ \cup {ctx.keys[ctx.index + 1]}]
  ELSE ctx

markKeyAsRateLimited(ctx, key) ==
  [ctx EXCEPT !.rateLimitedKeys = @ \cup {key}, !.lastFailedKey = key]

getLastFailedKey(ctx) == ctx.lastFailedKey

allTriedKeysRateLimited(ctx) == ctx.triedKeys \subseteq ctx.rateLimitedKeys

\* ------------------------------------------------ what the upstream can do
Statuses == {200, 429, 500}
DispatchBodies == {BodyOk, BodyRateLimitType}
Responses ==
  { Response(st, UpstreamHeaders, d) : st \in Statuses, d \in DispatchBodies }
ErrorMessages == { MsgEmpty, MsgReadReset, MsgBadRecordMac, MsgTimedOut }

\* ------------------------------------------------------------------- state
VARIABLES
  pc,              \* "idle", "loop" (head of the while loop, 25), "inflight"
                   \* (a physical attempt is awaited, 31), "backoff" (the retry
                   \* timer is pending, 158), "done" (makeRequest settled)
  requestContext,  \* the request context of this makeRequest call (19)
  apiKey,          \* the candidate being attempted (24-25)
  lastError,       \* (20)
  lastResponse,    \* (21)
  retryCount,      \* the retryCount parameter of the pending sendRequest (98)
  timer,           \* the delay of the pending setTimeout, 0 when none (158-165)
  outcome,         \* how makeRequest settled: returned value or thrown error
  rotatorLastFailedKey, \* the key rotator's record of the last failed key (71)
  \* history of the call, for stating the properties
  attempted,       \* per candidate handed to sendRequest: key, class, value
  timers,          \* delays scheduled by the current top-level sendRequest
  attemptResult,   \* result of the last completed physical attempt
  physAttempts,    \* number of https.request calls made by this dispatch
  sendCalls,       \* number of top-level sendRequest calls (31)
  updateCalls,     \* number of keyRotator.updateLastFailedKey calls (71)
  sent,            \* what the pending https.request carries (112-127, 177-182),
                   \* Null when no physical attempt is in flight
  marked,          \* the keys passed to markKeyAsRateLimited, in call order
  completed,       \* number of physical attempts that ended ('end' or 'error')
  \* a second makeRequest call on the same client
  other,           \* the locals of the call that is not running now
  \* one application of a pure method
  fnOp,            \* which method: "none", "classify", "url", "mask"
  fnArg,           \* its argument
  fnPc,            \* "input" before the application, "output" after
  fnResult         \* its result

\* The locals and parameters of one makeRequest call and of the sendRequest
\* calls it makes (17-25, 98), with the history kept for that call.
callVars ==
  << pc, requestContext, apiKey, lastError, lastResponse, retryCount, timer,
     outcome, attempted, timers, attemptResult, physAttempts, sendCalls,
     updateCalls, sent, marked, completed >>

fnVars == << fnOp, fnArg, fnPc, fnResult >>

vars == << callVars, rotatorLastFailedKey, other, fnVars >>

Pending == [kind |-> "pending"]
Return(response) == [kind |-> "return", value |-> response]
Throw(error) == [kind |-> "throw", value |-> error]

Attempt(key, class, value) == [key |-> key, class |-> class, value |-> value]

\* The arguments of the makeRequest call (17).
RequestArgs ==
  [ method |-> "POST",
    path |-> "/v1/chat/completions",
    body |-> "{\"model\":\"gpt-4o\"}",
    headers |-> [accept |-> "application/json"] ]

\* What one https.request carries: the options built from the arguments and
\* the credential (112-122) and the body written (177-180).
Request(args, key) ==
  [ method |-> args.method, path |-> args.path, body |-> args.body,
    headers |-> args.headers, authorization |-> key ]

\* A client on which makeRequest has not been called yet.
IdleClient ==
  /\ pc = "idle"
  /\ requestContext = createRequestContext(0)
  /\ apiKey = NullKey
  /\ lastError = Null
  /\ lastResponse = Null
  /\ retryCount = 0
  /\ timer = 0
  /\ outcome = Pending
  /\ rotatorLastFailedKey = NullKey
  /\ attempted = << >>
  /\ timers = << >>
  /\ attemptResult = Null
  /\ physAttempts = 0
  /\ sendCalls = 0
  /\ updateCalls = 0
  /\ sent = Null
  /\ marked = << >>
  /\ completed = 0

\* The state after construction (5-15): no makeRequest call has been made.
Init ==
  /\ IdleClient
  /\ other = Null
  /\ fnOp = "none"
  /\ fnArg = Null
  /\ fnPc = "input"
  /\ fnResult = Null


\* ---------------------------------------------------- two calls in flight
\* Largest number of candidates offered to the first and to the second of two
\* makeRequest calls that are in flight together.
MaxFirstCallKeys == 2
MaxSecondCallKeys == 1

\* The locals of the running call, as they are kept while it is suspended.
Snapshot(id) ==
  [ id |-> id,
    pc |-> pc, requestContext |-> requestContext, apiKey |-> apiKey,
    lastError |-> lastError, lastResponse |-> lastResponse,
    retryCount |-> retryCount, timer |-> timer, outcome |-> outcome,
    attempted |-> attempted, timers |-> timers,
    attemptResult |-> attemptResult, physAttempts |-> physAttempts,
    sendCalls |-> sendCalls, updateCalls |-> updateCalls, sent |-> sent,
    marked |-> marked, completed |-> completed ]

\* How many candidates the context of the call being started may offer.
CandidateBound ==
  IF other = Null THEN MaxKeys
  ELSE IF other.id = 2 THEN MaxFirstCallKeys ELSE MaxSecondCallKeys

\* ------------------------------------------------------------- makeRequest
\* The call itself up to the head of the loop (17-24): a fresh request
\* context offering n candidates, nothing remembered.
MakeRequest ==
  /\ pc = "idle"
  /\ \E n \in 0..CandidateBound : requestContext' = createRequestContext(n)
  /\ lastError' = Null
  /\ lastResponse' = Null
  /\ pc' = "loop"
  /\ UNCHANGED << apiKey, retryCount, timer, outcome, rotatorLastFailedKey,
                  attempted, timers, attemptResult, physAttempts, sendCalls,
                  updateCalls, sent, marked, completed, other, fnVars >>

\* The loop head hands out a candidate (25) and sendRequest is called for it
\* with retryCount = 0 (31), which issues the first https.request (98-183).
NextKey ==
  /\ pc = "loop"
  /\ getNextKey(requestContext) # NullKey
  /\ apiKey' = getNextKey(requestContext)
  /\ requestContext' = AfterGetNextKey(requestContext)
  /\ retryCount' = 0
  /\ timers' = << >>
  /\ attemptResult' = Null
  /\ physAttempts' = physAttempts + 1
  /\ sendCalls' = sendCalls + 1
  /\ sent' = Request(RequestArgs, getNextKey(requestContext))
  /\ pc' = "inflight"
  /\ UNCHANGED << lastError, lastResponse, timer, outcome,
                  rotatorLastFailedKey, attempted, updateCalls, marked,
                  completed, other, fnVars >>

\* Mutant: the first rate-limited response is kept, later ones are dropped.
RememberResponse_KeepFirst(remembered, response) ==
  IF remembered # Null THEN remembered ELSE response

\* What the loop remembers of a rate-limited response (36, 47).
RememberResponse(remembered, response) == response

\* Mutant: a remembered rate-limit response wins over a remembered error.
ExhaustionOutcome_ResponseFirst(ctx, remembered, error) ==
  IF remembered # Null \/ allTriedKeysRateLimited(ctx)
  THEN Return(IF remembered # Null THEN remembered ELSE SynthesizedResponse)
  ELSE IF error # Null THEN Throw(error)
  ELSE Throw(GenericError)

\* Mutant: the remembered error is not looked at, the fallback error is thrown.
ExhaustionOutcome_NoErrorCheck(ctx, remembered, error) ==
  IF allTriedKeysRateLimited(ctx)
  THEN Return(IF remembered # Null THEN remembered ELSE SynthesizedResponse)
  ELSE Throw(GenericError)

\* Mutant: the remembered response is replaced by the synthesized one.
ExhaustionOutcome_AlwaysSynthesized(ctx, remembered, error) ==
  IF allTriedKeysRateLimited(ctx) THEN Return(SynthesizedResponse)
  ELSE IF error # Null THEN Throw(error)
  ELSE Throw(GenericError)

\* What makeRequest does after the loop (73-95), given the context and the
\* remembered response and error.
ExhaustionOutcome(ctx, remembered, error) ==
  IF allTriedKeysRateLimited(ctx)
  THEN Return(IF remembered # Null THEN remembered ELSE SynthesizedResponse)
  ELSE IF error # Null THEN Throw(error)
  ELSE Throw(GenericError)

\* getNextKey returns null (25): the rotator is told the last failed key
\* (70-71) and makeRequest returns or throws (73-95).
Exhausted ==
  /\ pc = "loop"
  /\ getNextKey(requestContext) = NullKey
  /\ requestContext' = AfterGetNextKey(requestContext)
  /\ rotatorLastFailedKey' = getLastFailedKey(requestContext)
  /\ updateCalls' = updateCalls + 1
  /\ outcome' = ExhaustionOutcome(requestContext, lastResponse, lastError)
  /\ pc' = "done"
  /\ UNCHANGED << apiKey, lastError, lastResponse, retryCount, timer,
                  attempted, timers, attemptResult, physAttempts, sendCalls,
                  sent, marked, completed, other, fnVars >>

\* The body of the try block after the await (33-56), for a resolved response.
OnResolve(response) ==
  IF Classify(response) = "Success"
  THEN /\ outcome' = Return(response)
       /\ pc' = "done"
       /\ UNCHANGED << requestContext, lastResponse, marked >>
  ELSE /\ requestContext' = markKeyAsRateLimited(requestContext, apiKey)
       /\ marked' = Append(marked, apiKey)
       /\ lastResponse' = RememberResponse(lastResponse, response)
       /\ pc' = "loop"
       /\ UNCHANGED outcome

\* The pending exchange completes (129-143): the promise chain of the
\* top-level sendRequest resolves with the response and makeRequest resumes.
ResponseEnd ==
  /\ pc = "inflight"
  /\ \E response \in Responses :
       /\ attemptResult' = response
       /\ attempted' = Append(attempted, Attempt(apiKey, Classify(response), response))
       /\ OnResolve(response)
  /\ sent' = Null
  /\ completed' = completed + 1
  /\ UNCHANGED << apiKey, lastError, retryCount, timer, rotatorLastFailedKey,
                  timers, physAttempts, sendCalls, updateCalls, other, fnVars >>

\* Mutant: only the first error is remembered.
OnReject_KeepFirst(error) ==
  /\ lastError' = (IF lastError # Null THEN lastError ELSE error)
  /\ pc' = "loop"
  /\ UNCHANGED outcome

\* Mutant: the catch block rethrows instead of trying the next key.
OnReject_Abort(error) ==
  /\ lastError' = error
  /\ outcome' = Throw(error)
  /\ pc' = "done"

\* The catch block of the loop (57-62), for a rejected sendRequest.
OnReject(error) ==
  /\ lastError' = error
  /\ pc' = "loop"
  /\ UNCHANGED outcome

\* The error the 'error' handler rejects with (173), given the error of the
\* failed attempt.
RejectedWith(error) == error

\* The pending request emits 'error' (145-175): either a retry is scheduled
\* after the backoff delay, or the promise chain of the top-level sendRequest
\* rejects and makeRequest resumes in its catch block.
ReqError ==
  /\ pc = "inflight"
  /\ \E message \in ErrorMessages :
       /\ attemptResult' = ErrorObject(message)
       /\ IF ShouldRetry(message, retryCount)
          THEN /\ timer' = Delay(retryCount)
               /\ timers' = Append(timers, Delay(retryCount))
               /\ pc' = "backoff"
               /\ UNCHANGED << lastError, outcome, attempted >>
          ELSE /\ OnReject(RejectedWith(ErrorObject(message)))
               /\ attempted' =
                    Append(attempted,
                           Attempt(apiKey, "TransportFailure",
                                   RejectedWith(ErrorObject(message))))
               /\ UNCHANGED << timer, timers >>
  /\ sent' = Null
  /\ completed' = completed + 1
  /\ UNCHANGED << requestContext, apiKey, lastResponse, retryCount,
                  rotatorLastFailedKey, physAttempts, sendCalls, updateCalls,
                  marked, other, fnVars >>

\* Mutant: the retry is sent without the request body.
RetryRequest_NoBody(args, key) == Request([args EXCEPT !.body = ""], key)

\* What the retry's https.request carries: sendRequest is called again with
\* the arguments and the credential of the failed call (160).
RetryRequest(args, key) == Request(args, key)

\* Mutant: the timer is an interval that stays armed after it fired.
TimerFires_Interval ==
  /\ pc = "backoff"
  /\ timer' = timer
  /\ retryCount' = retryCount + 1
  /\ attemptResult' = Null
  /\ physAttempts' = physAttempts + 1
  /\ sent' = RetryRequest(RequestArgs, apiKey)
  /\ pc' = "inflight"
  /\ UNCHANGED << requestContext, apiKey, lastError, lastResponse, outcome,
                  rotatorLastFailedKey, attempted, timers, sendCalls,
                  updateCalls, marked, completed, other, fnVars >>

\* The backoff timer fires (158-160): sendRequest is called again for the same
\* credential with retryCount + 1, which issues another https.request.
TimerFires ==
  /\ pc = "backoff"
  /\ timer' = 0
  /\ retryCount' = retryCount + 1
  /\ attemptResult' = Null
  /\ physAttempts' = physAttempts + 1
  /\ sent' = RetryRequest(RequestArgs, apiKey)
  /\ pc' = "inflight"
  /\ UNCHANGED << requestContext, apiKey, lastError, lastResponse, outcome,
                  rotatorLastFailedKey, attempted, timers, sendCalls,
                  updateCalls, marked, completed, other, fnVars >>

\* Mutant: the retry counter is a field of the client, shared by the calls.
ResumedRetryCount_Field(saved, current) == current

\* retryCount is a parameter of each sendRequest call (98): a resumed call
\* finds the value it was suspended with.
ResumedRetryCount(saved, current) == saved

\* lastError is a local of each makeRequest call (20).
ResumedLastError(saved, current) == saved

\* lastResponse is a local of each makeRequest call (21).
ResumedLastResponse(saved, current) == saved

\* requestContext is a local of each makeRequest call (19).
ResumedRequestContext(saved, current) == saved

\* The running call is suspended at an await (31, 158) or has not started or
\* has settled, and the event loop runs the other call, which is not settled.
Switch ==
  /\ other # Null
  /\ pc \in {"idle", "inflight", "backoff", "done"}
  /\ other.pc # "done"
  /\ other' = Snapshot(3 - other.id)
  /\ pc' = other.pc
  /\ requestContext' = ResumedRequestContext(other.requestContext, requestContext)
  /\ apiKey' = other.apiKey
  /\ lastError' = ResumedLastError(other.lastError, lastError)
  /\ lastResponse' = ResumedLastResponse(other.lastResponse, lastResponse)
  /\ retryCount' = ResumedRetryCount(other.retryCount, retryCount)
  /\ timer' = other.timer
  /\ outcome' = other.outcome
  /\ attempted' = other.attempted
  /\ timers' = other.timers
  /\ attemptResult' = other.attemptResult
  /\ physAttempts' = other.physAttempts
  /\ sendCalls' = other.sendCalls
  /\ updateCalls' = other.updateCalls
  /\ sent' = other.sent
  /\ marked' = other.marked
  /\ completed' = other.completed
  /\ UNCHANGED << rotatorLastFailedKey, fnVars >>

Next ==
  \/ MakeRequest
  \/ NextKey
  \/ Exhausted
  \/ ResponseEnd
  \/ ReqError
  \/ TimerFires

Spec == Init /\ [][Next]_vars

\* Every started operation of the event loop eventually runs: a pending
\* exchange completes, a pending timer fires, a resumed makeRequest proceeds.
FairSpec == Spec /\ WF_vars(Next)


\* Two makeRequest calls on one client, neither started yet.
ConcInit ==
  /\ IdleClient
  /\ other = Snapshot(2)
  /\ fnOp = "none"
  /\ fnArg = Null
  /\ fnPc = "input"
  /\ fnResult = Null

ConcNext == Next \/ Switch

\* Two makeRequest calls in flight on one client, interleaved at their awaits.
ConcSpec == ConcInit /\ [][ConcNext]_vars

\* ------------------------------------------------------------ pure methods
\* Strings that are taken apart (URLs, paths, credentials) are sequences of
\* one-character strings.
MaxUrlLen == 3
MaxCredentialLen == 9

SeqsUpTo(S, n) == UNION { [1..k -> S] : k \in 0..n }

EndsWithSlash(str) == str # << >> /\ str[Len(str)] = "/"
StartsWithSlash(str) == str # << >> /\ Head(str) = "/"

\* Mutant: the separating slash is always inserted.
FullUrl_AlwaysSlash(baseUrl, path) ==
  IF path = << >> \/ path = <<"/">> THEN baseUrl
  ELSE baseUrl \o <<"/">> \o path

\* The URL sendRequest composes from this.baseUrl and path (100-108).
FullUrl(baseUrl, path) ==
  IF path = << >> \/ path = <<"/">> THEN baseUrl
  ELSE IF StartsWithSlash(path)
       THEN IF EndsWithSlash(baseUrl) THEN baseUrl \o Tail(path)
            ELSE baseUrl \o path
       ELSE IF EndsWithSlash(baseUrl) THEN baseUrl \o path
            ELSE baseUrl \o <<"/">> \o path

\* maskApiKey (186-189); an absent credential is the empty sequence.
maskApiKey(key) ==
  IF key = << >> \/ Len(key) < 8 THEN <<"*", "*", "*">>
  ELSE SubSeq(key, 1, 4) \o <<".", ".", ".">> \o SubSeq(key, Len(key) - 3, Len(key))

\* The arguments the pure methods are applied to.
ClassifyStatuses == {200, 201, 400, 429, 500}
ClassifyHeaders == { UpstreamHeaders, [server |-> "upstream", retryAfter |-> "1"] }
ClassifyInputs ==
  { Response(st, h, d) : st \in ClassifyStatuses, h \in ClassifyHeaders, d \in Bodies }
BaseUrls == { <<"h">> \o t : t \in SeqsUpTo({"a", "/"}, MaxUrlLen - 1) }
Paths == SeqsUpTo({"p", "/"}, MaxUrlLen)
UrlInputs == { [baseUrl |-> b, path |-> p] : b \in BaseUrls, p \in Paths }
Credentials == SeqsUpTo({"s", "k"}, MaxCredentialLen)

FnInit ==
  /\ IdleClient
  /\ other = Null
  /\ fnPc = "input"
  /\ fnResult = Null
  /\ \/ fnOp = "classify" /\ fnArg \in ClassifyInputs
     \/ fnOp = "url" /\ fnArg \in UrlInputs
     \/ fnOp = "mask" /\ fnArg \in Credentials

\* The classification of a resolved response (33-56).
ClassifyResponse ==
  /\ fnOp = "classify" /\ fnPc = "input"
  /\ fnResult' = Classify(fnArg)
  /\ fnPc' = "output"
  /\ UNCHANGED << callVars, rotatorLastFailedKey, other, fnOp, fnArg >>

\* The URL composition at the head of sendRequest (100-108).
ComposeUrl ==
  /\ fnOp = "url" /\ fnPc = "input"
  /\ fnResult' = FullUrl(fnArg.baseUrl, fnArg.path)
  /\ fnPc' = "output"
  /\ UNCHANGED << callVars, rotatorLastFailedKey, other, fnOp, fnArg >>

\* One maskApiKey call (26, 146).
MaskApiKey ==
  /\ fnOp = "mask" /\ fnPc = "input"
  /\ fnResult' = maskApiKey(fnArg)
  /\ fnPc' = "output"
  /\ UNCHANGED << callVars, rotatorLastFailedKey, other, fnOp, fnArg >>

FnNext == ClassifyResponse \/ ComposeUrl \/ MaskApiKey

\* The pure methods of the client, each applied once to an argument.
FnSpec == FnInit /\ [][FnNext]_vars

\* =================================================================== claims
IsResponse(x) == "statusCode" \in DOMAIN x
IsError(x) == "message" \in DOMAIN x
Last(seq) == seq[Len(seq)]
Offered == Len(requestContext.keys)
Classes(seq) == { seq[i].class : i \in 1..Len(seq) }

\* A step in which the top-level sendRequest resolves with a response.
Resolves == pc = "inflight" /\ IsResponse(attemptResult')
\* A step in which the top-level sendRequest rejects.
Rejects == pc = "inflight" /\ IsError(attemptResult') /\ pc' # "backoff"
\* makeRequest settled after getNextKey returned null.
SettledAtExhaustion ==
  /\ pc = "done"
  /\ Len(attempted) = Offered
  /\ "Success" \notin Classes(attempted)

\* ---------------------------------------------------------------------- C1
\* C1: whenever sendRequest resolves with status 429, in that step the
\* credential just attempted (and no other) is added to the rate-limited keys
\* of the context, the response is remembered as lastResponse, makeRequest
\* does not settle and is back at the loop head where getNextKey is called;
\* and whenever makeRequest returns an upstream response with status 429, it
\* does so at the loop head with getNextKey returning null, and the response
\* is the one lastResponse holds.
C1_RateLimitedFallsThrough ==
  [][ /\ (Resolves /\ attemptResult'.statusCode = 429) =>
           /\ requestContext'.rateLimitedKeys =
                requestContext.rateLimitedKeys \cup {apiKey}
           /\ apiKey \notin requestContext.rateLimitedKeys
           /\ lastResponse' = attemptResult'
           /\ outcome' = Pending
           /\ pc' = "loop"
      /\ ( /\ outcome = Pending
           /\ outcome'.kind = "return"
           /\ outcome'.value.statusCode = 429
           /\ outcome'.value.headers = UpstreamHeaders ) =>
           /\ pc = "loop"
           /\ getNextKey(requestContext) = NullKey
           /\ outcome'.value = lastResponse
           /\ outcome'.value = Last(attempted).value
    ]_vars

\* Two candidates answered 429 with different bodies; the first 429 was not
\* returned, the second was returned at exhaustion.
C1_Witness ==
  /\ pc = "done"
  /\ Len(attempted) = 2
  /\ attempted[1].class = "HardRateLimited"
  /\ attempted[2].class = "HardRateLimited"
  /\ attempted[1].value # attempted[2].value
  /\ requestContext.rateLimitedKeys = {1, 2}
  /\ outcome = Return(attempted[2].value)

\* ---------------------------------------------------------------------- C2
\* The claim's own reading of "neither status 429 nor a soft rate limit".
C2_PassedThrough(response) ==
  /\ response.statusCode # 429
  /\ ~ ( /\ response.statusCode = 200
         /\ response.data \in {BodyRateLimitType, BodyCode429String, BodySynthesized} )

\* C2: whenever sendRequest resolves with a response that is neither status
\* 429 nor a soft rate limit (any other status included), makeRequest returns
\* exactly that response in that step, whatever was remembered from earlier
\* candidates; and once makeRequest has settled, getNextKey is not called
\* again, no sendRequest and no physical attempt is started, and the outcome
\* does not change.
C2_FirstPassThroughReturned ==
  [][ /\ (Resolves /\ C2_PassedThrough(attemptResult')) =>
           /\ outcome' = Return(attemptResult')
           /\ pc' = "done"
           /\ requestContext' = requestContext
      /\ pc = "done" =>
           /\ pc' = "done"
           /\ outcome' = outcome
           /\ requestContext' = requestContext
           /\ sendCalls' = sendCalls
           /\ physAttempts' = physAttempts
    ]_vars

\* Of three candidates, candidate 1 was rate-limited and candidate 2 answered
\* 500: that response was returned and candidate 3 was never handed out.
C2_Witness ==
  /\ pc = "done"
  /\ Offered = 3
  /\ Len(attempted) = 2
  /\ attempted[1].class = "HardRateLimited"
  /\ attempted[2].class = "Success"
  /\ attempted[2].value.statusCode = 500
  /\ outcome = Return(attempted[2].value)
  /\ lastResponse = attempted[1].value
  /\ requestContext.triedKeys = {1, 2}
  /\ sendCalls = 2


\* ---------------------------------------------------------------------- C3
\* C3: when makeRequest has settled and every candidate it attempted answered
\* 429, then all N offered candidates were attempted, by exactly N sendRequest
\* calls, each with a different candidate, and makeRequest returned the
\* response of the N-th candidate; with N = 0 it returned (did not throw) the
\* synthesized response with status 429 whose error has type and code
\* 'rate_limit_exceeded'.
C3_AllHardRateLimited ==
  (pc = "done" /\ Classes(attempted) \subseteq {"HardRateLimited"}) =>
     /\ Len(attempted) = Offered
     /\ sendCalls = Offered
     /\ \A i, j \in 1..Len(attempted) :
          i # j => attempted[i].key # attempted[j].key
     /\ { attempted[i].key : i \in 1..Len(attempted) } =
          { requestContext.keys[i] : i \in 1..Offered }
     /\ Offered > 0 => outcome = Return(Last(attempted).value)
     /\ Offered = 0 =>
          /\ outcome.kind = "return"
          /\ outcome.value.statusCode = 429
          /\ JSONParse(outcome.value.data).type = Str("rate_limit_exceeded")
          /\ JSONParse(outcome.value.data).code = Str("rate_limit_exceeded")

\* Three candidates all answered 429, the last with another body than the
\* first two, and the last response was returned.
C3_Witness ==
  /\ pc = "done"
  /\ Offered = 3
  /\ sendCalls = 3
  /\ Classes(attempted) = {"HardRateLimited"}
  /\ attempted[1].value = attempted[2].value
  /\ attempted[3].value # attempted[1].value
  /\ outcome = Return(attempted[3].value)

\* ---------------------------------------------------------------------- C4
\* C4: whenever the top-level sendRequest rejects, makeRequest does not settle
\* in that step: the error becomes lastError and control is back at the loop
\* head, where the next candidate is pulled; and whenever the last attempted
\* candidate was classified Success, makeRequest returned that candidate's
\* response, whatever error was remembered.
C4_RejectionFallsThrough ==
  [][ /\ Rejects =>
           /\ lastError' = attemptResult'
           /\ outcome' = Pending
           /\ pc' = "loop"
           /\ Last(attempted').class = "TransportFailure"
           /\ Last(attempted').key = apiKey
      /\ (pc' = "done" /\ "Success" \in Classes(attempted')) =>
           /\ Last(attempted').class = "Success"
           /\ outcome' = Return(Last(attempted').value)
    ]_vars

\* Candidate 1 was rejected after exhausting its retries, candidate 2 then
\* answered 200 with a normal body, which was returned while the error is
\* still remembered.
C4_Witness ==
  /\ pc = "done"
  /\ Len(attempted) = 2
  /\ attempted[1].class = "TransportFailure"
  /\ attempted[1].value = ErrorObject(MsgReadReset)
  /\ attempted[2].class = "Success"
  /\ lastError = attempted[1].value
  /\ outcome = Return(Response(200, UpstreamHeaders, BodyOk))

\* ---------------------------------------------------------------------- C5
\* The position of the most recent candidate whose sendRequest rejected.
LastFailure ==
  CHOOSE i \in 1..Len(attempted) :
    /\ attempted[i].class = "TransportFailure"
    /\ \A j \in (i + 1)..Len(attempted) : attempted[j].class # "TransportFailure"

\* C5: when makeRequest settled at exhaustion and at least one attempted
\* candidate ended in a transport failure, makeRequest threw the error of the
\* most recent such candidate, also when later candidates were rate-limited
\* and a rate-limit response is remembered.
C5_LastTransportErrorThrown ==
  (SettledAtExhaustion /\ "TransportFailure" \in Classes(attempted)) =>
     outcome = Throw(attempted[LastFailure].value)

\* Candidates 1 and 2 failed with different errors, candidate 3 was
\* rate-limited; the error of candidate 2 was thrown.
C5_Witness ==
  /\ SettledAtExhaustion
  /\ Len(attempted) = 3
  /\ attempted[1].class = "TransportFailure"
  /\ attempted[2].class = "TransportFailure"
  /\ attempted[1].value # attempted[2].value
  /\ attempted[3].class = "SoftRateLimited"
  /\ lastResponse = attempted[3].value
  /\ outcome = Throw(attempted[2].value)

C7_ExhaustionReturns429 ==
  (SettledAtExhaustion /\ allTriedKeysRateLimited(requestContext)) =>
     outcome.kind = "return" /\ outcome.value.statusCode = 429


\* ---------------------------------------------------------------------- C8
\* The delays the claim lists: 10, 20, 40, 80, then 100 up to the tenth retry.
C8_Delays == <<10, 20, 40, 80, 100, 100, 100, 100, 100, 100>>

\* C8: within one sendRequest call, the delays scheduled so far are the first
\* retries-so-far entries of 10,20,40,80,100,100,... (the delay before retry n
\* is min(baseDelay * backoffFactor^n, maxDelay)), at most maxRetries = 10
\* retries are scheduled, and when the call has rejected with an error whose
\* message contains 'ECONNRESET', all 10 retries had been made (11 attempts)
\* and the error is the one of the last attempt.
C8_ResetRetriedWithBackoff ==
  /\ retryCount <= maxRetries
  /\ Len(timers) <= maxRetries
  /\ timers = SubSeq(C8_Delays, 1, Len(timers))
  /\ \A n \in 1..Len(timers) : timers[n] = Min(10 * 2 ^ (n - 1), 100)
  /\ pc = "backoff" =>
       /\ Len(timers) = retryCount + 1
       /\ timer = Last(timers)
       /\ isRetriableError(attemptResult.message)
  /\ pc = "inflight" => Len(timers) = retryCount
  /\ ( /\ pc \in {"loop", "done"}
       /\ attempted # << >>
       /\ Last(attempted).class = "TransportFailure"
       /\ Includes(Last(attempted).value.message, "ECONNRESET") ) =>
       /\ retryCount = maxRetries
       /\ timers = C8_Delays
       /\ Last(attempted).value = attemptResult

\* A sendRequest call was rejected with 'read ECONNRESET' after ten retries
\* with the delays 10,20,40,80,100,...,100.
C8_Witness ==
  /\ pc = "loop"
  /\ Len(attempted) = 1
  /\ Last(attempted).class = "TransportFailure"
  /\ Last(attempted).value = ErrorObject(MsgReadReset)
  /\ retryCount = 10
  /\ physAttempts = 11
  /\ timers = C8_Delays

\* ---------------------------------------------------------------------- C9
\* The claim's own reading of "contains no retriable substring".
C9_NoRetriableSubstring(message) ==
  \A i \in 1..Len(message) :
    message[i] \notin {"ECONNRESET", "SSL routines", "ssl3_read_bytes",
                       "bad record mac", "SSL alert"}

\* C9: whenever a physical attempt fails with an error whose message is empty
\* or contains neither 'ECONNRESET' nor an SSL substring, the top-level
\* sendRequest rejects with that error in that step, at any retryCount: no
\* timer is scheduled and no further physical attempt is made for that call.
C9_NonRetriableRejectsAtOnce ==
  [][ ( /\ pc = "inflight"
        /\ IsError(attemptResult')
        /\ C9_NoRetriableSubstring(attemptResult'.message) ) =>
        /\ pc' = "loop"
        /\ lastError' = attemptResult'
        /\ Last(attempted') = Attempt(apiKey, "TransportFailure", attemptResult')
        /\ timer' = 0
        /\ timers' = timers
        /\ physAttempts' = physAttempts
        /\ retryCount' = retryCount
    ]_vars

\* After two retries the third attempt failed with an empty message and
\* sendRequest rejected with it: three attempts, two timers.
C9_Witness ==
  /\ pc = "loop"
  /\ Len(attempted) = 1
  /\ Last(attempted) = Attempt(1, "TransportFailure", ErrorObject(MsgEmpty))
  /\ retryCount = 2
  /\ timers = <<10, 20>>
  /\ physAttempts = 3
  /\ timer = 0

\* --------------------------------------------------------------------- C10
\* C10 as stated: the physical attempts of a makeRequest call never exceed
\* candidates x maxRetries.
C10_AtMostCandidatesTimesMaxRetries ==
  physAttempts <= Offered * maxRetries

\* C10 amended: every makeRequest call settles, and its physical attempts
\* never exceed candidates x (maxRetries + 1): each candidate gets one
\* initial attempt and up to maxRetries retries.
C10_TerminatesWithinBound ==
  /\ [](physAttempts <= Offered * (maxRetries + 1))
  /\ (pc # "idle") ~> (pc = "done" /\ outcome # Pending)

\* Every one of three candidates used its initial attempt and all 10 retries
\* and makeRequest then threw: 33 physical attempts.
C10_Witness ==
  /\ pc = "done"
  /\ Offered = 3
  /\ physAttempts = 33
  /\ outcome.kind = "throw"


\* --------------------------------------------------------------------- C11
\* The class the claim gives to a (status, body) pair.
C11_Expected(statusCode, data) ==
  IF statusCode = 429 THEN "HardRateLimited"
  ELSE IF /\ statusCode = 200
          /\ data \in {BodyRateLimitType, BodyCode429String, BodySynthesized}
       THEN "SoftRateLimited"
  ELSE "Success"

\* C11: the class of a response is one of HardRateLimited, SoftRateLimited
\* and Success (classification never throws) and is decided by status and
\* body alone: 429 is HardRateLimited; 200 with a JSON body whose error has
\* code "429" (a string) or type "rate_limit_exceeded" is SoftRateLimited;
\* everything else is Success, among them 200 with {"ok":true}, 200 with an
\* empty or unparsable body, 200 with the numeric code 429 and another type,
\* and a non-200, non-429 status with a rate-limit error body.
C11_ClassificationTable ==
  (fnOp = "classify" /\ fnPc = "output") =>
     /\ fnResult \in {"HardRateLimited", "SoftRateLimited", "Success"}
     /\ fnResult = C11_Expected(fnArg.statusCode, fnArg.data)
     /\ \A r \in ClassifyInputs :
          (r.statusCode = fnArg.statusCode /\ r.data = fnArg.data) =>
             Classify(r) = fnResult

\* A 200 response with an unparsable body was classified Success.
C11_Witness ==
  /\ fnOp = "classify" /\ fnPc = "output"
  /\ fnArg.statusCode = 200
  /\ fnArg.headers # UpstreamHeaders
  /\ fnArg.data = BodyNotJson
  /\ fnResult = "Success"


\* --------------------------------------------------------------------- C12
\* The two calls: the running one and the suspended one.
C12_Calls == { Snapshot(0), other }

C12_RateLimitedClasses == {"HardRateLimited", "SoftRateLimited"}

\* The position of the last attempt of a log whose class is one of classes,
\* 0 when there is none.
C12_LastOf(att, classes) ==
  IF \E i \in 1..Len(att) : att[i].class \in classes
  THEN CHOOSE i \in 1..Len(att) :
         /\ att[i].class \in classes
         /\ \A j \in (i + 1)..Len(att) : att[j].class \notin classes
  ELSE 0

\* The value of that attempt, null when there is none.
C12_LastValue(att, classes) ==
  IF C12_LastOf(att, classes) = 0 THEN Null
  ELSE att[C12_LastOf(att, classes)].value

\* What a makeRequest call that runs alone settles with when its candidates
\* end as the log att says and its context offers n candidates: the first
\* pass-through response; at exhaustion the last transport error if there is
\* one, otherwise the last rate-limit response, otherwise the synthesized 429.
C12_AloneOutcome(att, n) ==
  IF att # << >> /\ Last(att).class = "Success" THEN Return(Last(att).value)
  ELSE IF Len(att) < n THEN Pending
  ELSE IF C12_LastOf(att, {"TransportFailure"}) # 0
       THEN Throw(C12_LastValue(att, {"TransportFailure"}))
  ELSE IF att = << >> THEN Return(SynthesizedResponse)
  ELSE Return(Last(att).value)

\* The call c depends on nothing but its own per-attempt upstream results.
C12_Independent(c) ==
  LET att == c.attempted
      limited == { i \in 1..Len(att) : att[i].class \in C12_RateLimitedClasses }
  IN
  /\ \A i \in 1..Len(att) : att[i].key = i
  /\ c.pc # "idle" =>
       /\ Len(att) <= Len(c.requestContext.keys)
       /\ c.requestContext.rateLimitedKeys = limited
       /\ c.requestContext.triedKeys \in { 1..Len(att), 1..(Len(att) + 1) }
  /\ Len(c.marked) = Cardinality(limited)
  /\ \A i \in 1..Len(c.marked) : c.marked[i] \in limited
  /\ \A i, j \in 1..Len(c.marked) : i < j => c.marked[i] < c.marked[j]
  /\ c.lastError = C12_LastValue(att, {"TransportFailure"})
  /\ c.lastResponse = C12_LastValue(att, C12_RateLimitedClasses)
  /\ c.retryCount <= maxRetries
  /\ c.timers = SubSeq(C8_Delays, 1, Len(c.timers))
  /\ c.pc = "inflight" => Len(c.timers) = c.retryCount
  /\ c.pc = "backoff" => Len(c.timers) = c.retryCount + 1
  /\ c.physAttempts <= c.sendCalls * (maxRetries + 1)
  /\ c.pc = "done" =>
       c.outcome = C12_AloneOutcome(att, Len(c.requestContext.keys))
  /\ c.pc # "done" => c.outcome = Pending

\* C12: with two makeRequest calls in flight on one client, interleaved at
\* every await, each call's request context, lastError, lastResponse and retry
\* counter follow from its own attempts only, and each settled call has the
\* outcome, the attempted candidates and the marked credentials it has when it
\* runs alone against the same per-attempt upstream results.
C12_ConcurrentCallsIndependent ==
  other # Null => \A c \in C12_Calls : C12_Independent(c)

\* The first call attempted two candidates while the second call was in
\* flight: it threw the error of its first candidate after its second was
\* soft-rate-limited, and the second call, three retries into its own
\* candidate with another error, has nothing marked and nothing remembered.
C12_Witness ==
  /\ other # Null
  /\ other.id = 2
  /\ pc = "done"
  /\ Len(attempted) = 2
  /\ attempted[1].class = "TransportFailure"
  /\ attempted[2].class = "SoftRateLimited"
  /\ outcome = Throw(attempted[1].value)
  /\ marked = <<2>>
  /\ retryCount = 0
  /\ other.pc = "backoff"
  /\ other.retryCount = 3
  /\ other.attemptResult # attempted[1].value
  /\ other.lastError = Null
  /\ other.requestContext.rateLimitedKeys = {}

\* --------------------------------------------------------------------- C15
RECURSIVE StripTrailingSlashes(_)
StripTrailingSlashes(str) ==
  IF EndsWithSlash(str) THEN StripTrailingSlashes(SubSeq(str, 1, Len(str) - 1))
  ELSE str

RECURSIVE StripLeadingSlashes(_)
StripLeadingSlashes(str) ==
  IF StartsWithSlash(str) THEN StripLeadingSlashes(Tail(str)) ELSE str

\* At most one slash at the end of the base URL, at the start of the path.
C15_SingleSlashes(baseUrl, path) ==
  /\ ~EndsWithSlash(baseUrl) \/ ~EndsWithSlash(SubSeq(baseUrl, 1, Len(baseUrl) - 1))
  /\ ~StartsWithSlash(path) \/ ~StartsWithSlash(Tail(path))

\* C15 as stated: for every base URL b and every path p the composed URL is
\* b unchanged when p is empty or '/', and otherwise b and p with exactly one
\* slash between what precedes the join in b and what follows it in p.
C15_ExactlyOneSlashAlways ==
  (fnOp = "url" /\ fnPc = "output") =>
     IF fnArg.path \in { << >>, <<"/">> } THEN fnResult = fnArg.baseUrl
     ELSE fnResult = StripTrailingSlashes(fnArg.baseUrl) \o <<"/">>
                        \o StripLeadingSlashes(fnArg.path)

\* C15 amended: an empty path and the path '/' resolve to b unchanged for
\* every b; for every other path p with at most one leading slash and every b
\* with at most one trailing slash, the composed URL has exactly one slash at
\* the join, whether or not b ends with '/' and whether or not p starts with
\* '/'.
C15_ExactlyOneSlashForSingleSlashes ==
  (fnOp = "url" /\ fnPc = "output") =>
     /\ fnArg.path \in { << >>, <<"/">> } => fnResult = fnArg.baseUrl
     /\ ( /\ fnArg.path \notin { << >>, <<"/">> }
          /\ C15_SingleSlashes(fnArg.baseUrl, fnArg.path) ) =>
          /\ fnResult = StripTrailingSlashes(fnArg.baseUrl) \o <<"/">>
                          \o StripLeadingSlashes(fnArg.path)
          /\ ~EndsWithSlash(StripTrailingSlashes(fnArg.baseUrl))
          /\ ~StartsWithSlash(StripLeadingSlashes(fnArg.path))

\* The base URL 'ha/' and the path '/p' were composed to 'ha/p'.
C15_Witness ==
  /\ fnOp = "url" /\ fnPc = "output"
  /\ fnArg = [baseUrl |-> <<"h", "a", "/">>, path |-> <<"/", "p">>]
  /\ fnResult = <<"h", "a", "/", "p">>

\* --------------------------------------------------------------------- C16
\* C16: a credential shorter than 8 characters (or absent) is masked to
\* '***'; a credential of 8 or more characters is masked to its first 4
\* characters, '...', and its last 4 characters, which leaves at least one
\* character of the credential out of the result, so that the result without
\* its ellipsis is not the credential.
C16_MaskHidesCredential ==
  (fnOp = "mask" /\ fnPc = "output") =>
     /\ Len(fnArg) < 8 => fnResult = <<"*", "*", "*">>
     /\ Len(fnArg) >= 8 =>
          /\ fnResult = SubSeq(fnArg, 1, 4) \o <<".", ".", ".">>
                          \o SubSeq(fnArg, Len(fnArg) - 3, Len(fnArg))
          /\ \E i \in 1..Len(fnArg) : i > 4 /\ i <= Len(fnArg) - 4
          /\ SubSeq(fnResult, 1, 4) \o SubSeq(fnResult, 8, 11) # fnArg


\* --------------------------------------------------------------------- C13
\* C13: every makeRequest call that has settled, whatever its outcome, has
\* made exactly one keyRotator.updateLastFailedKey call, with the last failed
\* key of its context.
C13_OneUpdatePerCall ==
  pc = "done" =>
     /\ updateCalls = 1
     /\ rotatorLastFailedKey = getLastFailedKey(requestContext)

\* --------------------------------------------------------------------- C14
\* C14: makeRequest has settled exactly when it has an outcome, which is
\* either a returned response object with statusCode, headers and data, or a
\* thrown error; and a thrown error is the error of the most recent candidate
\* whose sendRequest rejected in this call.
C14_ResponseOrLastTransportError ==
  /\ (pc = "done") = (outcome # Pending)
  /\ pc = "done" =>
       /\ outcome.kind \in {"return", "throw"}
       /\ outcome.kind = "return" =>
            /\ DOMAIN outcome.value = {"statusCode", "headers", "data"}
            /\ \/ outcome.value = SynthesizedResponse
               \/ outcome.value = Last(attempted).value
       /\ outcome.kind = "throw" =>
            /\ "TransportFailure" \in Classes(attempted)
            /\ outcome.value = attempted[LastFailure].value
            /\ IsError(outcome.value)

\* Two candidates failed with different errors and the second error was
\* thrown.
C14_Witness ==
  /\ pc = "done"
  /\ Len(attempted) = 2
  /\ attempted[1] = Attempt(1, "TransportFailure", ErrorObject(MsgTimedOut))
  /\ attempted[2] = Attempt(2, "TransportFailure", ErrorObject(MsgBadRecordMac))
  /\ outcome = Throw(ErrorObject(MsgBadRecordMac))

\* --------------------------------------------------------------------- C17
\* C17: the generic error 'All API keys exhausted without clear error' is
\* thrown only by a call whose context offered no candidate and that
\* remembered neither an error nor a response; a call that attempted at least
\* one candidate and settled at exhaustion either returned the rate-limit
\* response of its last candidate or threw the error of a transport failure.
C17_GenericErrorOnlyWhenEmpty ==
  /\ outcome = Throw(GenericError) =>
       /\ Offered = 0
       /\ lastError = Null
       /\ lastResponse = Null
  /\ (SettledAtExhaustion /\ Len(attempted) >= 1) =>
       \/ /\ outcome.kind = "return"
          /\ Last(attempted).class \in {"HardRateLimited", "SoftRateLimited"}
          /\ outcome.value = Last(attempted).value
       \/ /\ outcome.kind = "throw"
          /\ outcome.value # GenericError
          /\ \E i \in 1..Len(attempted) :
               /\ attempted[i].class = "TransportFailure"
               /\ attempted[i].value = outcome.value

\* A rate-limited candidate followed by one with a non-retriable transport
\* failure: the call threw that transport error at exhaustion.
C17_Witness ==
  /\ SettledAtExhaustion
  /\ Len(attempted) = 2
  /\ attempted[1].class = "HardRateLimited"
  /\ attempted[2] = Attempt(2, "TransportFailure", ErrorObject(MsgTimedOut))
  /\ outcome = Throw(ErrorObject(MsgTimedOut))

\* --------------------------------------------------------------------- C18
\* C18: every physical attempt in flight carries the credential handed out
\* for the current top-level sendRequest call and the method, path, body and
\* headers of the makeRequest call; the credential does not change while that
\* sendRequest call is pending; every candidate starts with retryCount 0 and
\* no delay scheduled, whatever earlier candidates used; and retryCount never
\* exceeds maxRetries.
C18_SameRequestFullBudget ==
  [][ /\ pc' = "inflight" =>
           /\ sent' = Request(RequestArgs, apiKey')
           /\ apiKey' = Last(SubSeq(requestContext'.keys, 1, requestContext'.index))
      /\ (pc \in {"inflight", "backoff"} /\ pc' \in {"inflight", "backoff"}) =>
           apiKey' = apiKey
      /\ (pc = "loop" /\ pc' = "inflight") =>
           /\ retryCount' = 0
           /\ timers' = << >>
      /\ retryCount' <= maxRetries
    ]_vars

\* Candidate 1 used all ten retries and failed; candidate 2 is in its own
\* tenth retry, carrying credential 2 and the arguments of the call.
C18_Witness ==
  /\ pc = "inflight"
  /\ Len(attempted) = 1
  /\ attempted[1] = Attempt(1, "TransportFailure", ErrorObject(MsgReadReset))
  /\ apiKey = 2
  /\ retryCount = maxRetries
  /\ physAttempts = 22
  /\ sent = Request(RequestArgs, 2)

\* --------------------------------------------------------------------- C19
C19_RateLimited(attempt) ==
  /\ IsResponse(attempt.value)
  /\ C11_Expected(attempt.value.statusCode, attempt.value.data) # "Success"

\* C19: the keys passed to markKeyAsRateLimited are, in order, the keys of
\* the attempted candidates whose completed exchange was a hard or soft rate
\* limit, each once; they are the rate-limited keys of the context; a
\* candidate whose sendRequest rejected and the candidate whose response was
\* returned as Success are not among them.
C19_MarkedIffRateLimited ==
  LET limited == SelectSeq(attempted, C19_RateLimited)
  IN  /\ marked = [i \in 1..Len(limited) |-> limited[i].key]
      /\ \A i, j \in 1..Len(marked) : i # j => marked[i] # marked[j]
      /\ requestContext.rateLimitedKeys = { marked[i] : i \in 1..Len(marked) }
      /\ \A i \in 1..Len(attempted) :
           attempted[i].class \in {"TransportFailure", "Success"} =>
              attempted[i].key \notin requestContext.rateLimitedKeys

\* Candidate 1 failed at transport level, candidate 2 was soft rate-limited,
\* candidate 3 answered 500 with a rate-limit body and was returned: only
\* candidate 2 was marked.
C19_Witness ==
  /\ pc = "done"
  /\ Len(attempted) = 3
  /\ attempted[1].class = "TransportFailure"
  /\ attempted[2].class = "SoftRateLimited"
  /\ attempted[3] = Attempt(3, "Success", Response(500, UpstreamHeaders, BodyRateLimitType))
  /\ marked = <<2>>
  /\ requestContext.rateLimitedKeys = {2}

\* --------------------------------------------------------------------- C20
C20_Settled ==
  /\ sendCalls = Len(attempted) + (IF pc \in {"inflight", "backoff"} THEN 1 ELSE 0)
  /\ physAttempts - completed = (IF pc = "inflight" THEN 1 ELSE 0)
  /\ (sent # Null) = (pc = "inflight")
  /\ pc \in {"idle", "loop", "done"} => timer = 0
  /\ pc = "inflight" => timer = 0

\* C20: every top-level sendRequest call is either pending or has settled
\* exactly once (one entry per call); when none is pending, no backoff timer
\* is armed and no physical attempt is in flight; at most one physical
\* attempt is in flight at any moment, and only while the call is awaited;
\* and once makeRequest has settled no physical attempt is started and no
\* timer armed.
C20_SettlesOnceNothingLeftPending ==
  [][ /\ C20_Settled'
      /\ pc = "done" =>
           /\ physAttempts' = physAttempts
           /\ sendCalls' = sendCalls
           /\ sent' = Null
           /\ timer' = 0
    ]_vars

\* The first sendRequest call resolved with a 429 on its third attempt, after
\* two backoff timers: nothing is pending at the loop head.
C20_Witness ==
  /\ pc = "loop"
  /\ sendCalls = 1
  /\ Len(attempted) = 1
  /\ attempted[1].class = "HardRateLimited"
  /\ retryCount = 2
  /\ timers = <<10, 20>>
  /\ physAttempts = 3
  /\ completed = 3
  /\ timer = 0
  /\ sent = Null

====
